---- MODULE Spec2Model ----
(***************************************************************************)
(* A model of credit_model.py: the Equity / Option class hierarchy, the    *)
(* closed-form pricing of CallOption, PutOption and Forward, and the       *)
(* module-level script that builds one of each and prints the put-call     *)
(* parity residual.                                                        *)
(*                                                                         *)
(* Numbers.  A Python/numpy float is modelled as a record                  *)
(*   [k |-> "fin", v |-> n]   the finite value n / SCALE (fixed point),    *)
(*   [k |-> "inf", v |-> s]   s = 1: +inf, s = -1: -inf,                   *)
(*   [k |-> "nan", v |-> 0]   not-a-number.                                *)
(* numpy float64 arithmetic does not raise on a division by zero or on an  *)
(* invalid operation: it warns and yields inf or nan.  The operators       *)
(* fadd .. fdiv, np_sqrt, np_exp, np_log and norm_cdf follow those rules,  *)
(* rounding every finite result to the nearest multiple of 1 / SCALE.      *)
(***************************************************************************)
EXTENDS Integers, Sequences, FiniteSets

VARIABLES
    pc,      \* position of the module-level script (lines 198-212), then "done"
    env,     \* the module-level variables K, sigma, r, T (lines 199-202)
    heap,    \* the objects constructed so far, in order of construction
    given,   \* history: the constructor arguments each object was built with
    out,     \* standard output: the sequence of printed lines
    stack,   \* values of the sub-expressions of line 212 evaluated so far
    ret,     \* the last call made and what it returned or raised
    hist     \* history: for each object, the results its price() has returned

vars == <<pc, env, heap, given, out, stack, ret, hist>>

\* ---------------------------------------------------------------- numbers

SCALE == 10^3

Fin(n) == [k |-> "fin", v |-> n]
Inf(s) == [k |-> "inf", v |-> s]
NaN == [k |-> "nan", v |-> 0]

Abs(n) == IF n < 0 THEN -n ELSE n
Sgn(n) == IF n < 0 THEN -1 ELSE 1

\* n / d rounded to the nearest integer, d > 0
RoundDiv(n, d) == (2 * n + d) \div (2 * d)

\* a Python number (int or float) as passed by the caller, n / SCALE
PyNum(n) == Fin(n)

fneg(a) ==
    CASE a.k = "nan" -> NaN
      [] a.k = "inf" -> Inf(-a.v)
      [] OTHER -> Fin(-a.v)

fadd(a, b) ==
    CASE a.k = "nan" \/ b.k = "nan" -> NaN
      [] a.k = "inf" /\ b.k = "inf" -> IF a.v = b.v THEN a ELSE NaN
      [] a.k = "inf" -> a
      [] b.k = "inf" -> b
      [] OTHER -> Fin(a.v + b.v)

fsub(a, b) == fadd(a, fneg(b))

fmul(a, b) ==
    CASE a.k = "nan" \/ b.k = "nan" -> NaN
      [] a.k = "inf" \/ b.k = "inf" ->
            IF a.v = 0 \/ b.v = 0 THEN NaN ELSE Inf(Sgn(a.v) * Sgn(b.v))
      [] OTHER -> Fin(RoundDiv(a.v * b.v, SCALE))

\* the zero divisors that arise here are all +0.0
fdiv(a, b) ==
    CASE a.k = "nan" \/ b.k = "nan" -> NaN
      [] a.k = "inf" /\ b.k = "inf" -> NaN
      [] a.k = "inf" -> Inf(a.v * Sgn(b.v))
      [] b.k = "inf" -> Fin(0)
      [] b.v = 0 -> IF a.v = 0 THEN NaN ELSE Inf(Sgn(a.v))
      [] OTHER -> Fin(Sgn(b.v) * RoundDiv(Sgn(b.v) * a.v * SCALE, Abs(b.v)))

\* floor of the square root of n >= 0, by Newton's iteration from x
RECURSIVE IsqrtFrom(_, _)
IsqrtFrom(n, x) ==
    LET y == (x + n \div x) \div 2
    IN  IF y >= x THEN x ELSE IsqrtFrom(n, y)

Isqrt(n) == IF n = 0 THEN 0 ELSE IsqrtFrom(n, n)

np_sqrt(a) ==
    CASE a.k = "nan" -> NaN
      [] a.k = "inf" -> IF a.v = 1 THEN a ELSE NaN
      [] a.v < 0 -> NaN
      [] OTHER ->
            LET n == a.v * SCALE
                x == Isqrt(n)
            IN  Fin(IF n - x * x > x THEN x + 1 ELSE x)

\* sum of the Taylor series of exp at x (fixed point), term = x^(n-1)/(n-1)!
RECURSIVE ExpSeries(_, _, _, _)
ExpSeries(x, term, n, acc) ==
    IF term = 0 THEN acc
    ELSE ExpSeries(x, RoundDiv(term * x, SCALE * n), n + 1, acc + term)

np_exp(a) ==
    CASE a.k = "nan" -> NaN
      [] a.k = "inf" -> IF a.v = 1 THEN a ELSE Fin(0)
      [] OTHER -> Fin(ExpSeries(a.v, SCALE, 1, 0))

LN2 == RoundDiv(693147 * SCALE, 10^6)

\* 2 * atanh(z) = 2 * (z + z^3/3 + z^5/5 + ...), pw = z^n
RECURSIVE AtanhSeries(_, _, _, _)
AtanhSeries(z, pw, n, acc) ==
    IF pw = 0 THEN 2 * acc
    ELSE AtanhSeries(z, RoundDiv(RoundDiv(pw * z, SCALE) * z, SCALE), n + 2,
                     acc + RoundDiv(pw, n))

\* natural logarithm of y / SCALE, y > 0: halve or double y into [1/2, 2]
RECURSIVE LogPos(_)
LogPos(y) ==
    IF y > 2 * SCALE THEN LogPos(RoundDiv(y, 2)) + LN2
    ELSE IF 2 * y < SCALE THEN LogPos(2 * y) - LN2
    ELSE LET z == RoundDiv((y - SCALE) * SCALE, y + SCALE)
         IN  AtanhSeries(z, z, 1, 0)

np_log(a) ==
    CASE a.k = "nan" -> NaN
      [] a.k = "inf" -> IF a.v = 1 THEN a ELSE NaN
      [] a.v = 0 -> Inf(-1)
      [] a.v < 0 -> NaN
      [] OTHER -> Fin(LogPos(a.v))

\* the standard normal distribution function at 0.0, 0.1, ..., 3.3, times 1000
PhiTable ==
    <<500, 540, 579, 618, 655, 691, 726, 758, 788, 816,
      841, 864, 885, 903, 919, 933, 945, 955, 964, 971,
      977, 982, 986, 989, 992, 994, 995, 997, 997, 998,
      999, 999, 999, 1000>>

\* the upper tail 1 - Phi(z) for z >= 0, interpolated between table entries
NormTail(z) ==
    LET step == SCALE \div 10
        i == z \div step
        fr == z % step
    IN  IF i + 1 >= Len(PhiTable) THEN 0
        ELSE LET lo == PhiTable[i + 1]
                 hi == PhiTable[i + 2]
             IN  SCALE - RoundDiv((lo * step + (hi - lo) * fr) * SCALE, 1000 * step)

\* scipy's norm.cdf: the tail of |x|, reflected for x > 0
norm_cdf(a) ==
    CASE a.k = "nan" -> NaN
      [] a.k = "inf" -> IF a.v = 1 THEN Fin(SCALE) ELSE Fin(0)
      [] a.v > 0 -> Fin(SCALE - NormTail(a.v))
      [] OTHER -> Fin(NormTail(-a.v))

\* ------------------------------------------------------- inputs and bounds

\* the most objects ever constructed: the script's four and the caller's
MaxObjs == 5

\* the module-level parameters (lines 199-202), in units of 1 / SCALE
K == 100 * SCALE
sigma == (2 * SCALE) \div 10
r == (1 * SCALE) \div 10
T == 1 * SCALE

\* arguments a caller of the classes passes, valid and invalid
EquityArgs ==
    { <<".SPX", "USD", "US", "North America">>,
      <<".FTSE", "GBP", "UK", "Europe">> }
\* <<strike, volatility, rate, expiry>> as passed to a constructor: the
\* script's own tuple, then strike 0, volatility 0 (twice: the second with
\* S * exp(r * t) = K), volatility < 0 and expiry 0.  None of them makes the
\* divisor sigma * sqrt_t a negative zero.
OptionArgs ==
    { <<100 * SCALE, SCALE \div 5, SCALE \div 10, SCALE>>,
      <<0, SCALE \div 5, SCALE \div 10, SCALE>>,
      <<110 * SCALE, 0, SCALE \div 10, SCALE>>,
      <<100 * SCALE, 0, 0, SCALE>>,
      <<110 * SCALE, -(SCALE \div 5), SCALE \div 10, SCALE>>,
      <<110 * SCALE, SCALE \div 5, SCALE \div 10, 0>> }

\* module-level parameters of the parity scenario, all valid
ParityEnvs ==
    [K : {90 * SCALE, 100 * SCALE, 110 * SCALE},
     sigma : {SCALE \div 10, SCALE \div 5, (2 * SCALE) \div 5},
     r : {-(SCALE \div 20), 0, SCALE \div 10},
     T : {SCALE \div 4, SCALE, 4 * SCALE}]

\* ---------------------------------------------------------------- objects

\* an object with no attribute set: "" and 0 stand for the attributes an
\* instance does not have
NoStr == ""

NoObject ==
    [cls |-> "object",
     _market_name |-> NoStr, _denominated |-> NoStr,
     _country |-> NoStr, _region |-> NoStr,
     _underlyer |-> 0, _strike |-> 0, _volatility |-> 0,
     _interest_rate |-> 0, _time_to_expiry |-> 0,
     _option_type |-> NoStr]

Equity_init(market_name, denominated, country, region) ==
    [NoObject EXCEPT !.cls = "Equity",
                     !._market_name = market_name,
                     !._denominated = denominated,
                     !._country = country,
                     !._region = region]

TradableEquity_init(market_name, denominated, country, region) ==
    [Equity_init(market_name, denominated, country, region)
        EXCEPT !.cls = "TradableEquity"]

Option_init(S, strike, vol, rate, expiry, option_type) ==
    [NoObject EXCEPT !.cls = "Option",
                     !._underlyer = S,
                     !._strike = strike,
                     !._volatility = vol,
                     !._interest_rate = rate,
                     !._time_to_expiry = expiry,
                     !._option_type = option_type]

CallOption_init(S, strike, vol, rate, expiry) ==
    [Option_init(S, strike, vol, rate, expiry, "call") EXCEPT !.cls = "CallOption"]

\* a put tagged as line 145 tags a call
PutOption_init_call_tag(S, strike, vol, rate, expiry) ==
    [Option_init(S, strike, vol, rate, expiry, "call") EXCEPT !.cls = "PutOption"]

PutOption_init(S, strike, vol, rate, expiry) ==
    [Option_init(S, strike, vol, rate, expiry, "put") EXCEPT !.cls = "PutOption"]

Forward_init(S, strike, rate, expiry) ==
    [Option_init(S, strike, 0, rate, expiry, "forward") EXCEPT !.cls = "Forward"]

EquityClasses == {"TradableEquity"}
OptionClasses == {"CallOption", "PutOption", "Forward"}

Objects == 1 .. Len(heap)
Equities == {o \in Objects : heap[o].cls \in EquityClasses}
Options == {o \in Objects : heap[o].cls \in OptionClasses}

\* the names an instance of class cls answers to (methods, through its bases)
Attributes(cls) ==
    IF cls \in EquityClasses
    THEN {"get_name", "get_denominated", "__repr__", "__str__", "get_spot"}
    ELSE {"get_underlyer", "get_underlyer_spot", "get_strike", "get_volatility",
          "get_interest_rate", "get_time_to_expiry", "get_option_type",
          "__repr__", "__str__", "price"}

\* what a call returns or raises
Float(x) == [kind |-> "float", val |-> x]
Num(n) == [kind |-> "num", val |-> n]
Str(s) == [kind |-> "str", val |-> s]
Ref(o) == [kind |-> "ref", val |-> o]
Raise(e) == [kind |-> "raise", val |-> e]

\* ----------------------------------------------------------------- Equity

Equity_get_name(self) == heap[self]._market_name

Equity_get_denominated(self) == heap[self]._denominated

Equity_repr(self) ==
    <<"Equity: {0} ({1})", Equity_get_name(self), Equity_get_denominated(self)>>

Equity_str(self) == Equity_repr(self)

\* a spot that depends on the market name
TradableEquity_get_spot_by_name(self) ==
    IF heap[self]._market_name = ".SPX" THEN Fin(100 * SCALE) ELSE Fin(50 * SCALE)

TradableEquity_get_spot(self) == Fin(100 * SCALE)

\* ----------------------------------------------------------------- Option

Option_get_underlyer(self) == heap[self]._underlyer

\* line 74 calls underlyer.spot(); the branch taken is the one the attribute
\* lookup decides
Option_get_underlyer_spot(self) ==
    LET underlyer == Option_get_underlyer(self)
    IN  IF "spot" \in Attributes(heap[underlyer].cls)
        THEN Float(TradableEquity_get_spot(underlyer))
        ELSE Raise("AttributeError")

Option_get_strike(self) == heap[self]._strike

Option_get_volatility(self) == heap[self]._volatility

Option_get_interest_rate(self) == heap[self]._interest_rate

Option_get_time_to_expiry(self) == heap[self]._time_to_expiry

Option_get_option_type(self) == heap[self]._option_type

Option_repr(self) ==
    <<"{0} on {1}, with strike {2}, interest rate {3}, expiring in {4}, volatility = {5}",
      Option_get_option_type(self),
      Equity_get_name(Option_get_underlyer(self)),
      Option_get_strike(self),
      Option_get_interest_rate(self),
      Option_get_time_to_expiry(self),
      Option_get_volatility(self)>>

Option_str(self) == Option_repr(self)

\* ---------------------------------------------------------------- pricing

\* The locals S, K, t, r, sigma of price() are S, strike, t, rate, vol here:
\* K, r and sigma name the module-level variables.
\* lines 154-155: sqrt_t and d1
BS_d1(S, strike, t, rate, vol) ==
    LET sqrt_t == np_sqrt(t)
    IN  fadd(fdiv(np_log(fdiv(fmul(S, np_exp(fmul(rate, t))), strike)),
                  fmul(vol, sqrt_t)),
             fmul(fmul(Fin(SCALE \div 2), vol), sqrt_t))

BS_d2(S, strike, t, rate, vol) ==
    fsub(BS_d1(S, strike, t, rate, vol), fmul(vol, np_sqrt(t)))

\* K * np.exp(-r * t)
Discounted(strike, t, rate) == fmul(strike, np_exp(fmul(fneg(rate), t)))

\* line 159
CallFormula(S, strike, t, rate, vol) ==
    LET d1 == BS_d1(S, strike, t, rate, vol)
        d2 == BS_d2(S, strike, t, rate, vol)
    IN  fsub(fmul(S, norm_cdf(d1)),
             fmul(Discounted(strike, t, rate), norm_cdf(d2)))

\* line 180 with line 159's arguments of N: d1 and d2 not negated
PutFormula_unreflected(S, strike, t, rate, vol) ==
    LET d1 == BS_d1(S, strike, t, rate, vol)
        d2 == BS_d2(S, strike, t, rate, vol)
    IN  fadd(fmul(fneg(S), norm_cdf(d1)),
             fmul(Discounted(strike, t, rate), norm_cdf(d2)))

\* line 180
PutFormula(S, strike, t, rate, vol) ==
    LET d1 == BS_d1(S, strike, t, rate, vol)
        d2 == BS_d2(S, strike, t, rate, vol)
    IN  fadd(fmul(fneg(S), norm_cdf(fneg(d1))),
             fmul(Discounted(strike, t, rate), norm_cdf(fneg(d2))))

\* line 195
ForwardFormula(S, strike, t, rate) == fsub(S, Discounted(strike, t, rate))

CallOption_price(self) ==
    CallFormula(TradableEquity_get_spot(Option_get_underlyer(self)),
                PyNum(Option_get_strike(self)),
                PyNum(Option_get_time_to_expiry(self)),
                PyNum(Option_get_interest_rate(self)),
                PyNum(Option_get_volatility(self)))

PutOption_price(self) ==
    PutFormula(TradableEquity_get_spot(Option_get_underlyer(self)),
               PyNum(Option_get_strike(self)),
               PyNum(Option_get_time_to_expiry(self)),
               PyNum(Option_get_interest_rate(self)),
               PyNum(Option_get_volatility(self)))

Forward_price(self) ==
    ForwardFormula(TradableEquity_get_spot(Option_get_underlyer(self)),
                   PyNum(Option_get_strike(self)),
                   PyNum(Option_get_time_to_expiry(self)),
                   PyNum(Option_get_interest_rate(self)))

\* ------------------------------------------------------- calls and prints

NoCall == [op |-> "none", self |-> 0, kind |-> "none", val |-> 0]

\* the call of method op on object self returned or raised res
Returned(op, self, res) ==
    ret' = [op |-> op, self |-> self, kind |-> res.kind, val |-> res.val]

\* object obj is appended to the heap, built from the arguments args
Construct(op, obj, args) ==
    /\ heap' = Append(heap, obj)
    /\ given' = Append(given, args)
    /\ hist' = Append(hist, {})
    /\ ret' = [op |-> op, self |-> Len(heap) + 1, kind |-> "ref",
               val |-> Len(heap) + 1]

\* price() of self returned x
Priced(self, x) ==
    /\ Returned("price", self, Float(x))
    /\ hist' = [hist EXCEPT ![self] = @ \cup {x}]

\* print(obj): str(obj) is written to standard output
Stdout(line) == out' = Append(out, line)

\* ----------------------------------------------- the module-level script

\* the names the script binds
s1 == 1
c == 2
p == 3
f == 4

L198 ==
    /\ pc = "L198"
    /\ Construct("TradableEquity",
                 TradableEquity_init(".SPX", "USD", "US", "North America"),
                 <<".SPX", "USD", "US", "North America">>)
    /\ pc' = "L204"
    /\ UNCHANGED <<env, out, stack>>

L204 ==
    /\ pc = "L204"
    /\ Construct("CallOption",
                 CallOption_init(s1, env.K, env.sigma, env.r, env.T),
                 <<s1, env.K, env.sigma, env.r, env.T>>)
    /\ pc' = "L205"
    /\ UNCHANGED <<env, out, stack>>

L205 ==
    /\ pc = "L205"
    /\ Construct("PutOption",
                 PutOption_init(s1, env.K, env.sigma, env.r, env.T),
                 <<s1, env.K, env.sigma, env.r, env.T>>)
    /\ pc' = "L206"
    /\ UNCHANGED <<env, out, stack>>

L206 ==
    /\ pc = "L206"
    /\ Construct("Forward",
                 Forward_init(s1, env.K, env.r, env.T),
                 <<s1, env.K, env.r, env.T>>)
    /\ pc' = "L207"
    /\ UNCHANGED <<env, out, stack>>

L207 ==
    /\ pc = "L207"
    /\ Stdout(Equity_str(s1))
    /\ Returned("__str__", s1, Str(Equity_str(s1)))
    /\ pc' = "L208"
    /\ UNCHANGED <<env, heap, given, stack, hist>>

L208 ==
    /\ pc = "L208"
    /\ Stdout(Option_str(c))
    /\ Returned("__str__", c, Str(Option_str(c)))
    /\ pc' = "L209"
    /\ UNCHANGED <<env, heap, given, stack, hist>>

\* line 209 printing c a second time
L209_prints_c ==
    /\ pc = "L209"
    /\ Stdout(Option_str(c))
    /\ Returned("__str__", c, Str(Option_str(c)))
    /\ pc' = "L210"
    /\ UNCHANGED <<env, heap, given, stack, hist>>

L209 ==
    /\ pc = "L209"
    /\ Stdout(Option_str(p))
    /\ Returned("__str__", p, Str(Option_str(p)))
    /\ pc' = "L210"
    /\ UNCHANGED <<env, heap, given, stack, hist>>

L210 ==
    /\ pc = "L210"
    /\ Stdout(Option_str(f))
    /\ Returned("__str__", f, Str(Option_str(f)))
    /\ pc' = "L211"
    /\ UNCHANGED <<env, heap, given, stack, hist>>

L211 ==
    /\ pc = "L211"
    /\ Stdout(<<"Checking the put call parity:">>)
    /\ pc' = "L212_c"
    /\ UNCHANGED <<env, heap, given, stack, ret, hist>>

\* line 212 evaluates c.price(), then p.price() and the first difference,
\* then f.price() and the second difference, then formats and prints
L212_c ==
    /\ pc = "L212_c"
    /\ Priced(c, CallOption_price(c))
    /\ stack' = <<CallOption_price(c)>>
    /\ pc' = "L212_p"
    /\ UNCHANGED <<env, heap, given, out>>

L212_p ==
    /\ pc = "L212_p"
    /\ Priced(p, PutOption_price(p))
    /\ stack' = <<fsub(stack[1], PutOption_price(p))>>
    /\ pc' = "L212_f"
    /\ UNCHANGED <<env, heap, given, out>>

L212_f ==
    /\ pc = "L212_f"
    /\ Priced(f, Forward_price(f))
    /\ stack' = <<fsub(stack[1], Forward_price(f))>>
    /\ pc' = "L212_print"
    /\ UNCHANGED <<env, heap, given, out>>

L212_print ==
    /\ pc = "L212_print"
    /\ Stdout(<<"c-p-f = {0}", stack[1]>>)
    /\ stack' = <<>>
    /\ pc' = "done"
    /\ UNCHANGED <<env, heap, given, ret, hist>>

Script ==
    \/ L198 \/ L204 \/ L205 \/ L206
    \/ L207 \/ L208 \/ L209 \/ L210 \/ L211
    \/ L212_c \/ L212_p \/ L212_f \/ L212_print

\* -------------------------------- calls by a user of the imported module

New_TradableEquity(a) ==
    /\ pc = "done"
    /\ Len(heap) < MaxObjs
    /\ Construct("TradableEquity", TradableEquity_init(a[1], a[2], a[3], a[4]), a)
    /\ UNCHANGED <<pc, env, out, stack>>

New_CallOption(S, strike, vol, rate, expiry) ==
    /\ pc = "done"
    /\ Len(heap) < MaxObjs
    /\ Construct("CallOption", CallOption_init(S, strike, vol, rate, expiry),
                 <<S, strike, vol, rate, expiry>>)
    /\ UNCHANGED <<pc, env, out, stack>>

New_PutOption(S, strike, vol, rate, expiry) ==
    /\ pc = "done"
    /\ Len(heap) < MaxObjs
    /\ Construct("PutOption", PutOption_init(S, strike, vol, rate, expiry),
                 <<S, strike, vol, rate, expiry>>)
    /\ UNCHANGED <<pc, env, out, stack>>

New_Forward(S, strike, rate, expiry) ==
    /\ pc = "done"
    /\ Len(heap) < MaxObjs
    /\ Construct("Forward", Forward_init(S, strike, rate, expiry),
                 <<S, strike, rate, expiry>>)
    /\ UNCHANGED <<pc, env, out, stack>>

\* a method that only reads: the call returns res
Getter(op, self, res) ==
    /\ pc = "done"
    /\ Returned(op, self, res)
    /\ UNCHANGED <<pc, env, heap, given, out, stack, hist>>

Call_get_name(self) == Getter("get_name", self, Str(Equity_get_name(self)))

Call_get_denominated(self) ==
    Getter("get_denominated", self, Str(Equity_get_denominated(self)))

Call_get_spot(self) == Getter("get_spot", self, Float(TradableEquity_get_spot(self)))

Call_Equity_repr(self) == Getter("__repr__", self, Str(Equity_repr(self)))

Call_Equity_str(self) == Getter("__str__", self, Str(Equity_str(self)))

Call_get_underlyer(self) ==
    Getter("get_underlyer", self, Ref(Option_get_underlyer(self)))

Call_get_underlyer_spot(self) ==
    Getter("get_underlyer_spot", self, Option_get_underlyer_spot(self))

Call_get_strike(self) == Getter("get_strike", self, Num(Option_get_strike(self)))

Call_get_volatility(self) ==
    Getter("get_volatility", self, Num(Option_get_volatility(self)))

Call_get_interest_rate(self) ==
    Getter("get_interest_rate", self, Num(Option_get_interest_rate(self)))

Call_get_time_to_expiry(self) ==
    Getter("get_time_to_expiry", self, Num(Option_get_time_to_expiry(self)))

Call_get_option_type(self) ==
    Getter("get_option_type", self, Str(Option_get_option_type(self)))

Call_Option_repr(self) == Getter("__repr__", self, Str(Option_repr(self)))

Call_Option_str(self) == Getter("__str__", self, Str(Option_str(self)))

\* a price() that keeps the discounted strike in the strike field
Call_CallOption_price_storing(self) ==
    /\ pc = "done"
    /\ heap[self].cls = "CallOption"
    /\ Priced(self, CallOption_price(self))
    /\ heap' = [heap EXCEPT ![self]._strike =
                    Discounted(PyNum(Option_get_strike(self)),
                               PyNum(Option_get_time_to_expiry(self)),
                               PyNum(Option_get_interest_rate(self))).v]
    /\ UNCHANGED <<pc, env, given, out, stack>>

Call_CallOption_price(self) ==
    /\ pc = "done"
    /\ heap[self].cls = "CallOption"
    /\ Priced(self, CallOption_price(self))
    /\ UNCHANGED <<pc, env, heap, given, out, stack>>

\* a price() that answers from a module-wide cache of the last float returned
Call_PutOption_price_cached(self) ==
    /\ pc = "done"
    /\ heap[self].cls = "PutOption"
    /\ Priced(self, IF ret.kind = "float" THEN ret.val ELSE PutOption_price(self))
    /\ UNCHANGED <<pc, env, heap, given, out, stack>>

Call_PutOption_price(self) ==
    /\ pc = "done"
    /\ heap[self].cls = "PutOption"
    /\ Priced(self, PutOption_price(self))
    /\ UNCHANGED <<pc, env, heap, given, out, stack>>

Call_Forward_price(self) ==
    /\ pc = "done"
    /\ heap[self].cls = "Forward"
    /\ Priced(self, Forward_price(self))
    /\ UNCHANGED <<pc, env, heap, given, out, stack>>

User ==
    \/ \E a \in EquityArgs : New_TradableEquity(a)
    \/ \E S \in Equities, a \in OptionArgs : New_CallOption(S, a[1], a[2], a[3], a[4])
    \/ \E S \in Equities, a \in OptionArgs : New_PutOption(S, a[1], a[2], a[3], a[4])
    \/ \E S \in Equities, a \in OptionArgs : New_Forward(S, a[1], a[3], a[4])
    \/ \E self \in Equities : Call_get_name(self)
    \/ \E self \in Equities : Call_get_denominated(self)
    \/ \E self \in Equities : Call_get_spot(self)
    \/ \E self \in Equities : Call_Equity_repr(self)
    \/ \E self \in Equities : Call_Equity_str(self)
    \/ \E self \in Options : Call_get_underlyer(self)
    \/ \E self \in Options : Call_get_underlyer_spot(self)
    \/ \E self \in Options : Call_get_strike(self)
    \/ \E self \in Options : Call_get_volatility(self)
    \/ \E self \in Options : Call_get_interest_rate(self)
    \/ \E self \in Options : Call_get_time_to_expiry(self)
    \/ \E self \in Options : Call_get_option_type(self)
    \/ \E self \in Options : Call_Option_repr(self)
    \/ \E self \in Options : Call_Option_str(self)
    \/ \E self \in Options : Call_CallOption_price(self)
    \/ \E self \in Options : Call_PutOption_price(self)
    \/ \E self \in Options : Call_Forward_price(self)

\* ---------------------------------------------------------- specifications

Start(e) ==
    /\ pc = "L198"
    /\ env = e
    /\ heap = <<>>
    /\ given = <<>>
    /\ out = <<>>
    /\ stack = <<>>
    /\ ret = NoCall
    /\ hist = <<>>

\* the program as written: the script runs at import, then the importer
\* uses the classes and the script's objects
Init == Start([K |-> K, sigma |-> sigma, r |-> r, T |-> T])

Next == Script \/ User

Spec == Init /\ [][Next]_vars

\* the script with its four parameters drawn from ParityEnvs
InitParity == \E e \in ParityEnvs : Start(e)

SpecParity == InitParity /\ [][Script]_vars

\* ------------------------------------------------------------------ claims

CallsAndPuts == {o \in Options : heap[o].cls \in {"CallOption", "PutOption"}}
Forwards == {o \in Options : heap[o].cls = "Forward"}

\* C1: whenever the script has built its call, put and forward on one
\* underlyer with one strike K > 0, rate r, expiry T > 0 and volatility
\* sigma > 0, the residual c.price() - p.price() - f.price() it prints is
\* finite and zero up to one unit of rounding, for every sigma.
C1_Parity ==
    pc = "done" =>
        /\ out[6][2] = fsub(fsub(CallOption_price(c), PutOption_price(p)),
                            Forward_price(f))
        /\ out[6][2].k = "fin"
        /\ Abs(out[6][2].v) <= 1

\* the script has run with a strike and a volatility other than the
\* defaults, and the call and the put both have a positive price
C1_ParityWitness ==
    /\ pc = "done"
    /\ env.K = 90 * SCALE
    /\ env.sigma = (2 * SCALE) \div 5
    /\ \E x \in hist[c] : x.k = "fin" /\ x.v > 0
    /\ \E y \in hist[p] : y.k = "fin" /\ y.v > 0
    /\ \E z \in hist[f] : z.k = "fin" /\ z.v > 0

\* C2: price() of a call or put whose volatility is 0 raises
\* NumericDegeneracy; it returns no number, no infinity and no nan.
C2_ZeroVolatilityRaises ==
    (/\ ret.op = "price"
     /\ ret.self \in CallsAndPuts
     /\ Option_get_volatility(ret.self) = 0)
        => (ret.kind = "raise" /\ ret.val = "NumericDegeneracy")

\* C3: no option exists with a strike <= 0 or a volatility < 0, and no call
\* or put with an expiry <= 0: their construction raised InvalidParameter.
C3_InvalidRejected ==
    \A o \in Options :
        /\ Option_get_strike(o) > 0
        /\ Option_get_volatility(o) >= 0
        /\ o \in CallsAndPuts => Option_get_time_to_expiry(o) > 0

\* C4: get_underlyer_spot() returns what get_underlyer().get_spot() returns
\* and does not raise.
C4_UnderlyerSpot ==
    ret.op = "get_underlyer_spot" =>
        /\ ret.kind = "float"
        /\ ret.val = TradableEquity_get_spot(Option_get_underlyer(ret.self))

\* the part of C5 about Forward alone: every price a forward has returned is
\* S - K * exp(-r * t) for the spot S = 100.0, and S - K itself at t = 0
C5_ForwardFormula ==
    \A o \in Forwards : \A x \in hist[o] :
        /\ x = fsub(Fin(100 * SCALE),
                    fmul(Fin(heap[o]._strike),
                         np_exp(fmul(fneg(Fin(heap[o]._interest_rate)),
                                     Fin(heap[o]._time_to_expiry)))))
        /\ heap[o]._time_to_expiry = 0 => x = Fin(100 * SCALE - heap[o]._strike)

\* C5: a forward's price is S - K * exp(-r * t), exactly S - K at t = 0, and
\* no call or put with t = 0 has had a number returned by price().
C5_ForwardOnlyAtExpiry ==
    /\ C5_ForwardFormula
    /\ \A o \in CallsAndPuts :
            heap[o]._time_to_expiry = 0 => \A x \in hist[o] : x.k # "fin"

\* C6: no step changes a field of an object that exists: price(), the
\* getters, __repr__ and __str__ and the construction of other objects leave
\* every object as it was built.
C6_FieldsFrozen ==
    [][\A o \in 1 .. Len(heap) : Len(heap') >= o /\ heap'[o] = heap[o]]_vars

\* an option built by the importer has been priced and then described
C6_FrozenWitness ==
    /\ Len(heap) > f
    /\ hist[Len(heap)] # {}
    /\ ret.op = "__repr__"
    /\ ret.self = Len(heap)
    /\ heap[Len(heap)]._strike = given[Len(heap)][2]

\* two options agree on everything price() reads
SameTerms(a, b) ==
    /\ heap[a].cls = heap[b].cls
    /\ heap[a]._strike = heap[b]._strike
    /\ heap[a]._volatility = heap[b]._volatility
    /\ heap[a]._interest_rate = heap[b]._interest_rate
    /\ heap[a]._time_to_expiry = heap[b]._time_to_expiry
    /\ TradableEquity_get_spot(heap[a]._underlyer)
           = TradableEquity_get_spot(heap[b]._underlyer)

\* C7: all the results price() has returned for one instrument are one and
\* the same value, whatever was called in between, and two instruments with
\* the same fields and spot have returned the same value.
C7_Deterministic ==
    \A a \in Options, b \in Options :
        SameTerms(a, b) => Cardinality(hist[a] \cup hist[b]) <= 1

\* the importer has priced the script's call c again, and another call with
\* the same terms has been priced too
C7_SecondCallWitness ==
    /\ pc = "done"
    /\ ret.op = "price"
    /\ ret.self = c
    /\ hist[c] = {ret.val}
    /\ \E b \in Options : b # c /\ SameTerms(b, c) /\ hist[b] # {}

\* the six lines the script prints
ScriptOutput ==
    <<Equity_str(s1), Option_str(c), Option_str(p), Option_str(f),
      <<"Checking the put call parity:">>,
      <<"c-p-f = {0}",
        fsub(fsub(CallOption_price(c), PutOption_price(p)), Forward_price(f))>> >>

\* C8 as stated: the finished script has printed the four descriptions and
\* then, as the fifth and last line, the parity residual.
C8_FiveLines ==
    pc = "done" =>
        /\ Len(out) = 5
        /\ SubSeq(out, 1, 4) = SubSeq(ScriptOutput, 1, 4)
        /\ out[5][1] = "c-p-f = {0}"

\* C8, amended: the output is at every moment a prefix of the six lines
\* Equity, Call, Put, Forward, the heading "Checking the put call parity:"
\* and the residual, it is all six once the script has ended, and no
\* price() has been called before the four descriptions and the heading
\* are out.
C8_SixLines ==
    /\ Len(out) <= 6
    /\ \A i \in 1 .. Len(out) : out[i] = ScriptOutput[i]
    /\ pc = "done" => Len(out) = 6
    /\ \A o \in Objects : hist[o] # {} => Len(out) >= 5

\* the script has ended, having priced all three instruments
C8_ScriptEndWitness ==
    /\ pc = "done"
    /\ hist[c] # {} /\ hist[p] # {} /\ hist[f] # {}
    /\ out[6][1] = "c-p-f = {0}"

\* the price of option o when its underlyer's spot is S
PriceAtSpot(o, S) ==
    CASE heap[o].cls = "CallOption" ->
            CallFormula(S, Fin(heap[o]._strike), Fin(heap[o]._time_to_expiry),
                        Fin(heap[o]._interest_rate), Fin(heap[o]._volatility))
      [] heap[o].cls = "PutOption" ->
            PutFormula(S, Fin(heap[o]._strike), Fin(heap[o]._time_to_expiry),
                       Fin(heap[o]._interest_rate), Fin(heap[o]._volatility))
      [] OTHER ->
            ForwardFormula(S, Fin(heap[o]._strike), Fin(heap[o]._time_to_expiry),
                           Fin(heap[o]._interest_rate))

\* C9: every get_spot() has returned 100.0, whatever the equity was built
\* with, and every price() returned is the formula's value at S = 100.0.
C9_SpotIsConstant ==
    /\ ret.op = "get_spot" => (ret.kind = "float" /\ ret.val = Fin(100 * SCALE))
    /\ \A o \in Options : \A x \in hist[o] : x = PriceAtSpot(o, Fin(100 * SCALE))

\* get_spot() has been called on an equity that is not the script's
C9_OtherEquityWitness ==
    /\ ret.op = "get_spot"
    /\ ret.self # s1
    /\ heap[ret.self]._market_name = ".FTSE"
    /\ heap[ret.self]._denominated = "GBP"

\* C10: a CallOption is tagged "call", a PutOption "put", a Forward
\* "forward" with volatility 0, and underlyer, strike, rate, expiry (and a
\* call's or put's volatility) are the constructor's arguments.
C10_TagsAndFields ==
    \A o \in Options :
        /\ heap[o].cls = "CallOption" => Option_get_option_type(o) = "call"
        /\ heap[o].cls = "PutOption" => Option_get_option_type(o) = "put"
        /\ heap[o].cls = "Forward" =>
                /\ Option_get_option_type(o) = "forward"
                /\ Option_get_volatility(o) = 0
                /\ <<Option_get_underlyer(o), Option_get_strike(o),
                     Option_get_interest_rate(o), Option_get_time_to_expiry(o)>>
                       = given[o]
        /\ o \in CallsAndPuts =>
                <<Option_get_underlyer(o), Option_get_strike(o),
                  Option_get_volatility(o), Option_get_interest_rate(o),
                  Option_get_time_to_expiry(o)>> = given[o]

\* the importer has built a put with a negative volatility and asked its type
C10_PutTagWitness ==
    /\ ret.op = "get_option_type"
    /\ ret.self > f
    /\ heap[ret.self].cls = "PutOption"
    /\ given[ret.self][3] < 0
    /\ ret.val = "put"

====
